---- MODULE Spec2Model ----
(***************************************************************************)
(* media_catalog: the duplicate-aware ingestion pipeline.                  *)
(*                                                                         *)
(* The model follows catalog.py (main, process_source), copier.py,         *)
(* catalog_store.py, hasher.py and models.py.  The persistent state is the  *)
(* target tree and the files of the catalog directory; the volatile state  *)
(* is one run of main: its CatalogStore and the process_source call that   *)
(* is in progress.  The environment chooses the sources, the I/O failures  *)
(* and the moments at which the process stops and is started again.        *)
(***************************************************************************)
EXTENDS Integers, Sequences, FiniteSets, TLC

VARIABLES
    target,             \* target tree: destination path -> bytes
    dirs,               \* dated folders that exist under the target root
    catfs,              \* files of the catalog directory: path -> content
    catPath,            \* CatalogStore._path (default or --catalog-path)
    sess,               \* "none" | "open" | "aborted": state of one run of main
    loadResult,         \* "none" | "ok" | "raised" | "unusable": CatalogStore()
    algo,               \* args.hash_algo of this run of main
    dry_run,            \* args.dry_run of this run of main
    entries,            \* CatalogStore._entries: hash -> record
    pc,                 \* position inside process_source / CatalogStore.save
    src,                \* what scan_directory yields for the current source
    idx,                \* index in src of the next file of the loop
    files_scanned, files_copied, files_skipped, files_errored,
    errors,             \* ScanSummary.errors
    copies_since_save,  \* local of process_source
    saveRet,            \* which save is running: "ckpt" | "end"
    ret,                \* how the last process_source call ended
    \* ---- observers (not program state) ----
    last,               \* what the last loop iteration did
    seen,               \* bytes this store has copied or skipped a file of
    lastRun,            \* report of the previous call, if it returned
    saveOld,            \* the catalog directory when save() started
    nEvents,            \* files, failures and stops so far
    \* ---- one call of a function of scanner.py, copier.py, exif_reader.py ----
    srcTree,            \* the entries below a source directory
    rules,              \* the exclude patterns as given (file and --exclude)
    scan,               \* the last walk of the source tree and its result
    call                \* the last call of a function: arguments and result

vars == << target, dirs, catfs, catPath, sess, loadResult, algo, dry_run,
           entries, pc, src, idx, files_scanned, files_copied, files_skipped,
           files_errored, errors, copies_since_save, saveRet, ret, last, seen,
           lastRun, saveOld, nEvents, srcTree, rules, scan, call >>

\* the variables of single function calls
pure == << srcTree, rules, scan, call >>

\* the variables of the pipeline
pipeline == << target, dirs, catfs, catPath, sess, loadResult, algo, dry_run,
               entries, pc, src, idx, files_scanned, files_copied,
               files_skipped, files_errored, errors, copies_since_save,
               saveRet, ret, last, seen, lastRun, saveOld, nEvents >>

(***************************************************************************)
(* Bounds of the model.                                                    *)
(***************************************************************************)
\* What one behaviour may spend: a file processed, an I/O failure and a stop of
\* the process cost one each.
MaxEvents == 4

\* Files of the longest source beyond its second checkpoint.
ExtraFiles == 1

\* Entries of a source tree, and patterns of an exclude rule set.
MaxTreeEntries == 2
MaxRules == 1

\* Candidates taken in a row in the small folders resolve_collision is
\* called on (the full folders go up to the limit of the program).
MaxTaken == 4

\* Metadata tags of one media file.
MaxTags == 3

\* Records added to a catalog store used on its own.
MaxAdds == 3

(***************************************************************************)
(* Program constants.                                                      *)
(***************************************************************************)
MAX_COLLISION_ATTEMPTS == 999
CHECKPOINT_EVERY == 50


(***************************************************************************)
(* The universe of inputs.  A file name is its stem and its extension; a   *)
(* stem is the sequence of the parts that "_" joins, so that the stem of   *)
(* "a_2.jpg" is <<"a", 2>>, the stem resolve_collision builds from "a".    *)
(***************************************************************************)
Contents == {"A", "B"}
\* What a file of the target tree holds: all the bytes of a source file, or
\* the beginning of them (a copy that failed part-way).
Whole(b) == [bytes |-> b, whole |-> TRUE]
Partial(b) == [bytes |-> b, whole |-> FALSE]
Foreign == Whole("X")   \* a file the pipeline did not write

Name_a  == [stem |-> <<"a">>,    ext |-> ".jpg"]
Name_a2 == [stem |-> <<"a", 2>>, ext |-> ".jpg"]
Name_b  == [stem |-> <<"b">>,    ext |-> ".MP4"]

Date1 == [year |-> 2024, month |-> 3, day |-> 15]
Date2 == [year |-> 2023, month |-> 12, day |-> 1]
Dates == {Date1, Date2}

Algos == {"sha256", "md5"}

\* Same name and date with different bytes, and the same bytes under another
\* name, kind and date.
SourceFiles == { [name |-> Name_a, bytes |-> "A", date |-> Date1],
                 [name |-> Name_a, bytes |-> "B", date |-> Date1],
                 [name |-> Name_b, bytes |-> "A", date |-> Date2] }

RECURSIVE SeqsUpTo(_, _)
SeqsUpTo(S, n) ==
    IF n = 0 THEN {<< >>}
    ELSE LET shorter == SeqsUpTo(S, n - 1)
         IN  shorter \cup {Append(q, x) : q \in shorter, x \in S}

Sources == SeqsUpTo(SourceFiles, MaxEvents)

None == "None"
NoPath == [dir |-> << >>, name |-> [stem |-> << >>, ext |-> ""]]

(***************************************************************************)
(* hasher.py                                                               *)
(***************************************************************************)
compute_sha256(f) == <<"sha256", f.bytes>>
compute_md5(f) == <<"md5", f.bytes>>
compute_hash(f, a) == IF a = "md5" THEN compute_md5(f) ELSE compute_sha256(f)

(***************************************************************************)
(* scanner.py: classification by extension.                                *)
(***************************************************************************)
IMAGE_EXTENSIONS == {".jpg", ".jpeg", ".png", ".gif", ".bmp", ".tiff", ".tif",
                     ".heic", ".heif", ".webp", ".raw", ".cr2", ".nef", ".arw",
                     ".dng"}
VIDEO_EXTENSIONS == {".mp4", ".mov", ".avi", ".mkv", ".m4v", ".wmv",
                     ".flv", ".webm", ".mts", ".m2ts", ".3gp"}

Lower(e) == CASE e = ".JPG" -> ".jpg"
              [] e = ".MP4" -> ".mp4"
              [] e = ".DNG" -> ".dng"
              [] OTHER -> e

classify_file(name) ==
    LET ext == Lower(name.ext)
    IN  IF ext \in IMAGE_EXTENSIONS THEN "image"
        ELSE IF ext \in VIDEO_EXTENSIONS THEN "video"
        ELSE None

(***************************************************************************)
(* Strings of the scanner.  A string is the sequence of its tokens: a      *)
(* word, a word with its leading dot (".jpg", ".git"), "*", "/" or "#".  A  *)
(* name is the record of its stem and its extension, as above, and a       *)
(* relative path is the sequence of its names.                             *)
(***************************************************************************)
DotWords == {".jpg", ".JPG", ".dng", ".DNG", ".MP4", ".txt", ".json", ".git",
             ".hidden"}

DirName(w) == [stem |-> << w >>, ext |-> ""]
FileName(w, e) == [stem |-> << w >>, ext |-> e]

\* the text of a name
Tokens(name) == IF name.ext = "" THEN name.stem ELSE Append(name.stem, name.ext)

\* str(path): the names joined by "/"
RECURSIVE Str(_)
Str(parts) ==
    IF parts = << >> THEN << >>
    ELSE IF Len(parts) = 1 THEN Tokens(parts[1])
    ELSE Tokens(parts[1]) \o << "/" >> \o Str(Tail(parts))

\* str.lower()
LowerStr(p) == [i \in DOMAIN p |-> Lower(p[i])]

\* str.rstrip("/")
RECURSIVE rstrip_slash(_)
rstrip_slash(p) ==
    IF p # << >> /\ p[Len(p)] = "/" THEN rstrip_slash(SubSeq(p, 1, Len(p) - 1))
    ELSE p

\* fnmatch.fnmatch(name, pat) on a POSIX system: "*" matches any run of
\* tokens, "/" included; every other token matches itself
RECURSIVE fnmatch(_, _)
fnmatch(name, pat) ==
    IF pat = << >> THEN name = << >>
    ELSE IF pat[1] = "*"
         THEN \/ fnmatch(name, Tail(pat))
              \/ name # << >> /\ fnmatch(Tail(name), pat)
    ELSE /\ name # << >>
         /\ name[1] = pat[1]
         /\ fnmatch(Tail(name), Tail(pat))

(***************************************************************************)
(* excludes.py                                                             *)
(***************************************************************************)
HasToken(p, t) == \E i \in DOMAIN p : p[i] = t

\* what Excludes.__init__ does with one pattern: the lists it is added to
\* (dir_only: it ended in "/";  p: the pattern without its trailing "/")
Normalise(raw) ==
    LET dir_only == raw # << >> /\ raw[Len(raw)] = "/"
        p == rstrip_slash(raw)
    IN  IF raw = << >> \/ raw[1] = "#"
           THEN [dir |-> {}, file |-> {}, ext |-> {}]
        ELSE IF p # << >> /\ p[1] \in DotWords /\ ~HasToken(p, "*")
           THEN [dir |-> {}, file |-> {}, ext |-> {LowerStr(p)}]
        ELSE IF Len(p) >= 2 /\ p[1] = "*" /\ p[2] \in DotWords /\ ~HasToken(p, "/")
           THEN [dir |-> {}, file |-> {}, ext |-> {LowerStr(Tail(p))}]
        ELSE IF dir_only \/ ~HasToken(p, "/")
           THEN [dir |-> {p}, file |-> IF dir_only THEN {} ELSE {p}, ext |-> {}]
        ELSE [dir |-> {p}, file |-> {}, ext |-> {}]

\* Excludes(patterns)
Excludes(patterns) ==
    [dir_patterns  |-> UNION {Normalise(patterns[i]).dir  : i \in DOMAIN patterns},
     file_patterns |-> UNION {Normalise(patterns[i]).file : i \in DOMAIN patterns},
     ext_set       |-> UNION {Normalise(patterns[i]).ext  : i \in DOMAIN patterns}]

EMPTY_EXCLUDES == Excludes(<< >>)

\* Excludes.should_skip_dir(rel_path)
should_skip_dir(ex, rel_path) ==
    \E i \in DOMAIN rel_path : \E pattern \in ex.dir_patterns :
        IF ~HasToken(pattern, "/")
           THEN fnmatch(Tokens(rel_path[i]), pattern)
           ELSE fnmatch(Str(rel_path), pattern)

\* Excludes.should_skip_file(file_path)
should_skip_file(ex, name) ==
    \/ name.ext # "" /\ << Lower(name.ext) >> \in ex.ext_set
    \/ \E pattern \in ex.file_patterns : fnmatch(Tokens(name), pattern)

(***************************************************************************)
(* scanner.py: the walk.  An entry of the source tree is a path below the  *)
(* root that is no directory: a regular file, a symbolic link to a file    *)
(* ("symlink") or to a directory ("dirlink"), or something else            *)
(* ("special": a socket, a dangling link).                                 *)
(***************************************************************************)
CATALOG_FILENAME == FileName("media_catalog", ".json")

\* the directories of the tree: rglob visits them as well
DirsOf(tree) ==
    UNION {{SubSeq(e.parts, 1, n) : n \in 1..(Len(e.parts) - 1)} : e \in tree}
EntryOfDir(parts) == [parts |-> parts, kind |-> "dir", size |-> 1, stat |-> "ok"]
rglob(tree) == tree \cup {EntryOfDir(d) : d \in DirsOf(tree)}

\* Faulty variant: only the file name is tested, not every component.
is_hidden_name_only(parts) == Tokens(parts[Len(parts)])[1] \in DotWords

is_hidden(parts) == \E i \in DOMAIN parts : Tokens(parts[i])[1] \in DotWords
is_dir(e) == e.kind \in {"dir", "dirlink"}
is_file(e) == e.kind \in {"file", "symlink"}
is_symlink(e) == e.kind \in {"symlink", "dirlink"}
Parent(parts) == SubSeq(parts, 1, Len(parts) - 1)
BaseName(parts) == parts[Len(parts)]

\* whether the loop body of scan_directory reaches its yield for entry e
Yields(e, ex) ==
    /\ ~is_hidden(e.parts)
    /\ ~is_dir(e)
    /\ is_file(e)
    /\ ~is_symlink(e)
    /\ BaseName(e.parts) # CATALOG_FILENAME
    /\ ~(Parent(e.parts) # << >> /\ should_skip_dir(ex, Parent(e.parts)))
    /\ ~should_skip_file(ex, BaseName(e.parts))
    /\ e.stat = "ok" /\ e.size # 0
    /\ classify_file(BaseName(e.parts)) # None

\* scan_directory(source_path, excludes): the pairs it yields
scan_directory(tree, ex) ==
    {<< e.parts, classify_file(BaseName(e.parts)) >> :
        e \in {x \in rglob(tree) : Yields(x, ex)}}

\* count_media_files(source_path, excludes)
count_media_files(tree, ex) == Cardinality(scan_directory(tree, ex))

(***************************************************************************)
(* copier.py                                                               *)
(***************************************************************************)
RECURSIVE Pow10(_)
Pow10(n) == IF n = 0 THEN 1 ELSE 10 * Pow10(n - 1)

\* strftime of a non-negative field, zero-padded to w digits
Digits(n, w) == [i \in 1..w |-> (n \div Pow10(w - i)) % 10]

MEDIA_TYPE_DIRS(media_type) ==
    CASE media_type = "image" -> <<"image", "s">>     \* "images"
      [] media_type = "video" -> <<"video", "s">>     \* "videos"
      [] OTHER -> <<media_type, "s">>

\* Faulty variant: day and month change places.
build_destination_path_day_first(media_type, date_taken, original_filename) ==
    [dir  |-> << MEDIA_TYPE_DIRS(media_type), Digits(date_taken.year, 4),
                 Digits(date_taken.day, 2), Digits(date_taken.month, 2) >>,
     name |-> original_filename]

\* The path is relative to target_root, as every path of the target tree is.
build_destination_path(media_type, date_taken, original_filename) ==
    [dir  |-> << MEDIA_TYPE_DIRS(media_type), Digits(date_taken.year, 4),
                 Digits(date_taken.month, 2), Digits(date_taken.day, 2) >>,
     name |-> original_filename]

\* parent / f"{stem}_{counter}{suffix}"
Candidate(dest_path, counter) ==
    [dest_path EXCEPT !.name.stem = Append(@, counter)]

\* the RuntimeError of resolve_collision, in place of a path
RuntimeError == [dir |-> << >>, name |-> [stem |-> << >>, ext |-> "RuntimeError"]]

\* for counter in range(counter, MAX_COLLISION_ATTEMPTS + 2): the first
\* candidate that does not exist, or the error after the loop
FirstFree(existing, dest_path, counter) ==
    LET range == counter..(MAX_COLLISION_ATTEMPTS + 1)
        free(k) == Candidate(dest_path, k) \notin existing
    IN  IF \E k \in range : free(k)
           THEN Candidate(dest_path,
                          CHOOSE k \in range :
                              free(k) /\ \A j \in counter..(k - 1) : ~free(j))
           ELSE RuntimeError

\* Faulty variant: the existence test is left out.
resolve_collision_unchecked(existing, dest_path) == dest_path

\* Faulty variant: the counter starts one too high.
resolve_collision_from_3(existing, dest_path) ==
    IF dest_path \notin existing THEN dest_path
    ELSE FirstFree(existing, dest_path, 3)

\* Faulty variant: the loop is range(2, MAX_COLLISION_ATTEMPTS + 1), one
\* attempt short.
resolve_collision_short(existing, dest_path) ==
    IF dest_path \notin existing THEN dest_path
    ELSE IF FirstFree(existing, dest_path, 2)
               = Candidate(dest_path, MAX_COLLISION_ATTEMPTS + 1)
         THEN RuntimeError
    ELSE FirstFree(existing, dest_path, 2)

resolve_collision(existing, dest_path) ==
    IF dest_path \notin existing THEN dest_path
    ELSE FirstFree(existing, dest_path, 2)

(***************************************************************************)
(* models.py / catalog.py: the FileRecord process_source builds.           *)
(***************************************************************************)
DateString(d) == << Digits(d.year, 4), "-", Digits(d.month, 2), "-",
                    Digits(d.day, 2) >>

\* Faulty variant: the record names the path that was asked for.
FileRecord_requested(file_hash, f, actual_dest) ==
    [hash             |-> file_hash,
     original_path    |-> f.name,
     destination_path |-> build_destination_path(classify_file(f.name), f.date,
                                                 f.name),
     media_type       |-> classify_file(f.name),
     extension        |-> Lower(f.name.ext),
     date_taken       |-> DateString(f.date)]

FileRecord(file_hash, f, actual_dest) ==
    [hash             |-> file_hash,
     original_path    |-> f.name,
     destination_path |-> actual_dest,
     media_type       |-> classify_file(f.name),
     extension        |-> Lower(f.name.ext),
     date_taken       |-> DateString(f.date)]

(***************************************************************************)
(* catalog_store.py: the in-memory map.                                    *)
(***************************************************************************)
EmptyFn == [x \in {} |-> x]
NoEntries == EmptyFn

\* Faulty variant: the key looked up is always the md5 one.
contains_md5_key(e, file_hash) == << "md5", file_hash[2] >> \in DOMAIN e

contains(e, file_hash) == file_hash \in DOMAIN e

\* models.py, FileRecord.to_dict and from_dict: the keys written and the keys
\* read.  The records of the pipeline carry the six fields its properties
\* read; the records handed to the store directly carry all nine.
ToDictKeys == {"hash", "original_path", "destination_path", "media_type",
               "extension", "date_taken", "date_source", "file_size_bytes",
               "cataloged_at"}
FromDictKeys == {"hash", "original_path", "destination_path", "media_type",
                 "extension", "date_taken", "date_source", "file_size_bytes",
                 "cataloged_at"}

KeyError == [error |-> "KeyError"]
NoRecord == [error |-> "None"]

\* Faulty variant: the size is not written.
to_dict_no_size(record) ==
    [k \in (ToDictKeys \ {"file_size_bytes"}) \cap DOMAIN record |-> record[k]]

to_dict(record) == [k \in ToDictKeys \cap DOMAIN record |-> record[k]]

from_dict(d) == IF FromDictKeys \subseteq DOMAIN d
                THEN [k \in FromDictKeys |-> d[k]]
                ELSE KeyError

\* Faulty variant: a hash that is present keeps its record.
add_first_wins(e, record) == e @@ (record.hash :> to_dict(record))

add(e, record) == (record.hash :> to_dict(record)) @@ e

get(e, file_hash) == IF file_hash \notin DOMAIN e THEN NoRecord
                     ELSE from_dict(e[file_hash])

record_count(e) == Cardinality(DOMAIN e)

\* Path.with_suffix
with_suffix(path, suffix) == [path EXCEPT !.suffix = suffix]

tmp_path == with_suffix(catPath, ".tmp")

DefaultCatalog == [stem |-> "media_catalog", suffix |-> ".json"]
CatalogPaths == {DefaultCatalog, [stem |-> "catalog", suffix |-> ".tmp"]}

\* What a file of the catalog directory can hold.
Doc(e) == [kind |-> "doc", entries |-> e]
PartialDoc(e) == [kind |-> "partial", entries |-> e]
BadKinds == {"malformed", "unreadable", "nonobject", "badutf8", "nullentries"}

\* Faulty variant: the records are read under the wrong key.
LoadOutcome_wrong_key(fs, path) ==
    IF path \in DOMAIN fs /\ fs[path].kind \in {"nonobject", "badutf8"}
       THEN [result |-> "raised", entries |-> NoEntries]
       ELSE [result |-> "ok", entries |-> NoEntries]

\* CatalogStore._load: "ok" with the entries read, or the exception that
\* leaves the constructor.  json.load raises JSONDecodeError on malformed or
\* truncated text; open raises OSError; a document that is no JSON object
\* has no .get (AttributeError); undecodable bytes raise UnicodeDecodeError;
\* "entries": null is stored as it is.
LoadOutcome(fs, path) ==
    IF path \notin DOMAIN fs THEN [result |-> "ok", entries |-> NoEntries]
    ELSE LET k == fs[path].kind
         IN  CASE k = "doc" -> [result |-> "ok", entries |-> fs[path].entries]
               [] k \in {"malformed", "partial", "unreadable"}
                        -> [result |-> "ok", entries |-> NoEntries]
               [] k = "nullentries"
                        -> [result |-> "unusable", entries |-> NoEntries]
               [] OTHER -> [result |-> "raised", entries |-> NoEntries]


(***************************************************************************)
(* Initial state: main has not run yet.  The target may already hold files *)
(* the pipeline did not write; the catalog file is absent or is not a      *)
(* catalog document.                                                       *)
(***************************************************************************)
PrePaths == { build_destination_path("image", Date1, Name_a2) }

NoFile == [name |-> [stem |-> << >>, ext |-> ""], bytes |-> "", date |-> Date1]
NoLast == [file |-> NoFile, known |-> FALSE, outcome |-> "none",
           date_resolved |-> FALSE, dest |-> NoPath]
NoRun == [ok |-> FALSE, src |-> << >>, algo |-> "", dry_run |-> FALSE,
          scanned |-> 0, copied |-> 0, skipped |-> 0, errored |-> 0,
          reloaded |-> FALSE]

\* no function has been called
NoScan == [op |-> "none", result |-> "none", yielded |-> {}]
NoCall == [fn |-> "none"]
PureIdle ==
    /\ srcTree = {}
    /\ rules = << >>
    /\ scan = NoScan
    /\ call = NoCall

\* trees: the sets of paths the target may hold at the start; used: the part
\* of the event budget that is not available
PipelineInit(trees, paths, kinds, used) ==
    /\ \E S \in trees :
          /\ target = [p \in S |-> Foreign]
          /\ dirs = {p.dir : p \in S}
    /\ catPath \in paths
    /\ \/ catfs = EmptyFn
       \/ \E k \in kinds : catfs = (catPath :> [kind |-> k, entries |-> NoEntries])
    /\ sess = "none"
    /\ loadResult = "none"
    /\ algo = "sha256"
    /\ dry_run = FALSE
    /\ entries = NoEntries
    /\ pc = "idle"
    /\ src = << >>
    /\ idx = 1
    /\ files_scanned = 0 /\ files_copied = 0
    /\ files_skipped = 0 /\ files_errored = 0
    /\ errors = << >>
    /\ copies_since_save = 0
    /\ saveRet = "end"
    /\ ret = "none"
    /\ last = NoLast
    /\ seen = {}
    /\ lastRun = NoRun
    /\ saveOld = EmptyFn
    /\ nEvents = used

InitState(trees, paths, kinds, used) ==
    PipelineInit(trees, paths, kinds, used) /\ PureIdle

InitWith(paths, kinds, pre) == InitState(SUBSET pre, paths, kinds, 0)

disk == << target, dirs, catfs, catPath >>

\* the environment may still inject a failure or stop the process
MayFail == nEvents < MaxEvents
summary == << files_scanned, files_copied, files_skipped, files_errored, errors >>

(***************************************************************************)
(* catalog.py, main: load the catalog, then process each source.           *)
(***************************************************************************)
Main ==
    /\ sess = "none"
    /\ \E a \in Algos, d \in BOOLEAN :
          /\ algo' = a
          /\ dry_run' = d
    /\ LET lo == LoadOutcome(catfs, catPath)
       IN  /\ loadResult' = lo.result
           /\ entries' = lo.entries
           \* an exception of CatalogStore(), or of store.record_count(),
           \* ends main
           /\ sess' = IF lo.result = "ok" THEN "open" ELSE "aborted"
    /\ UNCHANGED << disk, pc, src, idx, summary, copies_since_save, saveRet,
                    ret, last, seen, lastRun, saveOld, nEvents, pure >>

\* main calls process_source for the next source: the summary is fresh and
\* the loop is about to start.
StartCall ==
    /\ sess = "open"
    /\ pc = "idle"
    \* the files of the source are paid for here
    /\ src' \in {s \in Sources : nEvents + Len(s) <= MaxEvents}
    /\ nEvents' = nEvents + Len(src')
    /\ idx' = 1
    /\ pc' = "loop"
    /\ files_scanned' = 0 /\ files_copied' = 0
    /\ files_skipped' = 0 /\ files_errored' = 0
    /\ errors' = << >>
    /\ copies_since_save' = 0
    /\ ret' = "running"
    /\ last' = NoLast
    /\ UNCHANGED << disk, sess, loadResult, algo, dry_run, entries, saveRet,
                    seen, lastRun, saveOld, pure >>


(***************************************************************************)
(* catalog.py, process_source: the loop body for one file.                 *)
(***************************************************************************)
FileFaults == {"none", "hash", "date", "mkdir", "copy_partial", "copy_whole",
               "stat"}

\* Faulty variant: the date is resolved before the catalog lookup.
Outcome_date_first(fault, known, dry, actual_dest) ==
    IF fault = "hash" THEN "hash_error"
    ELSE IF fault = "date" THEN "date_error"
    ELSE IF known THEN "skipped"
    ELSE IF dry THEN "would_copy"
    ELSE IF actual_dest = RuntimeError THEN "collision_error"
    ELSE IF fault = "mkdir" THEN "mkdir_error"
    ELSE IF fault = "copy_partial" THEN "copy_error_partial"
    ELSE IF fault = "copy_whole" THEN "copy_error_whole"
    ELSE IF fault = "stat" THEN "stat_error"
    ELSE "copied"

\* The branch in which the loop body ends for one file.  fault is the call
\* that raises, if it is reached: compute_hash, get_media_date, mkdir,
\* shutil.copy2 (while writing the bytes, or after them in copystat), or
\* file_path.stat().
Outcome(fault, known, dry, actual_dest) ==
    IF fault = "hash" THEN "hash_error"
    ELSE IF known THEN "skipped"
    ELSE IF fault = "date" THEN "date_error"
    ELSE IF dry THEN "would_copy"
    ELSE IF actual_dest = RuntimeError THEN "collision_error"
    ELSE IF fault = "mkdir" THEN "mkdir_error"
    ELSE IF fault = "copy_partial" THEN "copy_error_partial"
    ELSE IF fault = "copy_whole" THEN "copy_error_whole"
    ELSE IF fault = "stat" THEN "stat_error"
    ELSE "copied"

\* Faulty variant: the except clause catches OSError only, not the
\* RuntimeError of resolve_collision.
ErrorOutcomes_OSError == {"hash_error", "date_error", "mkdir_error",
                          "copy_error_partial", "copy_error_whole", "stat_error"}

\* Faulty variant: a failure of file_path.stat() after the copy is counted
\* nowhere.
ErrorOutcomes_no_stat == {"hash_error", "date_error", "collision_error",
                          "mkdir_error", "copy_error_partial", "copy_error_whole"}

ErrorOutcomes == {"hash_error", "date_error", "collision_error", "mkdir_error",
                  "copy_error_partial", "copy_error_whole", "stat_error"}
\* outcomes in which shutil.copy2 has created the destination file
WroteOutcomes == {"copy_error_partial", "copy_error_whole", "stat_error",
                  "copied"}

\* get_media_date is called after the catalog lookup only
DateAttempted(outcome) == outcome \notin {"hash_error", "skipped"}

\* shutil.copy2: the destination holds the bytes of the source, whatever it
\* held before
shutil_copy2(tree, f, dest) == (dest :> Whole(f.bytes)) @@ tree
\* shutil.copy2 failing while the bytes are written
shutil_copy2_cut(tree, f, dest) == (dest :> Partial(f.bytes)) @@ tree

\* Faulty variant: the test is > in place of >=.
CheckpointDue_late(n) == n > CHECKPOINT_EVERY

\* the checkpoint test after store.add
CheckpointDue(n) == n >= CHECKPOINT_EVERY

Report == [ok |-> TRUE, src |-> src, algo |-> algo, dry_run |-> dry_run,
           scanned |-> files_scanned, copied |-> files_copied,
           skipped |-> files_skipped, errored |-> files_errored,
           reloaded |-> FALSE]

ProcessFile ==
    /\ pc = "loop"
    /\ idx <= Len(src)
    /\ \E fault \in (IF MayFail THEN FileFaults ELSE {"none"}) :
        LET f == src[idx]
            file_hash == compute_hash(f, algo)
            known == contains(entries, file_hash)
            media_type == classify_file(f.name)
            dest_path == build_destination_path(media_type, f.date, f.name)
            actual_dest == resolve_collision(DOMAIN target, dest_path)
            outcome == Outcome(fault, known, dry_run, actual_dest)
            wrote == outcome \in WroteOutcomes
            due == outcome = "copied" /\ CheckpointDue(copies_since_save + 1)
        IN  /\ files_scanned' = files_scanned + 1
            /\ target' = IF outcome = "copy_error_partial"
                            THEN shutil_copy2_cut(target, f, actual_dest)
                         ELSE IF wrote THEN shutil_copy2(target, f, actual_dest)
                         ELSE target
            /\ dirs' = IF wrote THEN dirs \cup {actual_dest.dir} ELSE dirs
            /\ entries' = IF outcome = "copied"
                             THEN add(entries, FileRecord(file_hash, f, actual_dest))
                             ELSE entries
            /\ copies_since_save' = IF outcome = "copied"
                                       THEN copies_since_save + 1
                                       ELSE copies_since_save
            /\ files_skipped' = IF outcome = "skipped"
                                   THEN files_skipped + 1 ELSE files_skipped
            \* with a checkpoint due, files_copied is counted after save()
            /\ files_copied' = IF outcome = "would_copy" \/ (outcome = "copied" /\ ~due)
                                  THEN files_copied + 1 ELSE files_copied
            /\ files_errored' = IF outcome \in ErrorOutcomes
                                   THEN files_errored + 1 ELSE files_errored
            /\ errors' = IF outcome \in ErrorOutcomes
                            THEN Append(errors, << f.name, outcome >>) ELSE errors
            /\ IF due
                  THEN /\ pc' = "save_open"
                       /\ saveRet' = "ckpt"
                       /\ saveOld' = catfs
                       /\ idx' = idx
                  ELSE /\ pc' = "loop"
                       /\ idx' = idx + 1
                       /\ UNCHANGED << saveRet, saveOld >>
            /\ last' = [file |-> f, known |-> known, outcome |-> outcome,
                        date_resolved |-> DateAttempted(outcome),
                        dest |-> IF wrote THEN actual_dest ELSE NoPath]
            /\ seen' = IF outcome \in {"copied", "skipped"}
                          THEN seen \cup {f.bytes} ELSE seen
            /\ nEvents' = IF outcome \in ErrorOutcomes \ {"collision_error"}
                              THEN nEvents + 1 ELSE nEvents
    /\ UNCHANGED << catfs, catPath, sess, loadResult, algo, dry_run, src, ret,
                    lastRun, pure >>

\* Faulty variant: the final save is not guarded by dry_run.
SavesAtEnd_always(dry) == TRUE

\* "Save after finishing each source": the loop is over.
SavesAtEnd(dry) == ~dry

EndOfSource ==
    /\ pc = "loop"
    /\ idx > Len(src)
    /\ IF SavesAtEnd(dry_run)
          THEN /\ pc' = "save_open"
               /\ saveRet' = "end"
               /\ saveOld' = catfs
               /\ UNCHANGED << ret, lastRun >>
          ELSE /\ pc' = "idle"
               /\ ret' = "returned"
               /\ lastRun' = Report
               /\ UNCHANGED << saveRet, saveOld >>
    /\ UNCHANGED << disk, sess, loadResult, algo, dry_run, entries, src, idx,
                    summary, copies_since_save, last, seen, nEvents, pure >>


(***************************************************************************)
(* catalog_store.py, CatalogStore.save, one step per file-system call, and *)
(* what process_source does when save() returns or raises.                 *)
(***************************************************************************)
\* os.replace(tmp, path): path gets the content of tmp, and tmp is gone
\* (renaming a file onto itself changes nothing)
os_replace(fs, from, to) ==
    [q \in (DOMAIN fs \ {from}) \cup {to} |-> IF q = to THEN fs[from] ELSE fs[q]]

\* save() returned
SaveReturns ==
    /\ saveOld' = EmptyFn
    /\ IF saveRet = "ckpt"
          THEN /\ copies_since_save' = 0
               /\ files_copied' = files_copied + 1
               /\ idx' = idx + 1
               /\ pc' = "loop"
               /\ UNCHANGED << files_scanned, files_skipped, files_errored, errors,
                               ret, sess, lastRun >>
          ELSE /\ pc' = "idle"
               /\ ret' = "returned"
               /\ lastRun' = Report
               /\ UNCHANGED << summary, copies_since_save, idx, sess >>

\* save() raised: inside the loop the except clause counts the file as
\* errored; after the loop the exception leaves process_source and main
SaveRaises ==
    /\ saveOld' = EmptyFn
    /\ IF saveRet = "ckpt"
          THEN /\ files_errored' = files_errored + 1
               /\ errors' = Append(errors, << src[idx].name, "save_error" >>)
               /\ idx' = idx + 1
               /\ pc' = "loop"
               /\ UNCHANGED << files_scanned, files_copied, files_skipped,
                               copies_since_save, ret, sess, lastRun >>
          ELSE /\ pc' = "idle"
               /\ ret' = "raised"
               /\ sess' = "aborted"
               /\ lastRun' = NoRun
               /\ UNCHANGED << summary, copies_since_save, idx >>

SaveFrame == UNCHANGED << target, dirs, catPath, loadResult, algo, dry_run,
                          entries, src, saveRet, last, seen, pure >>

\* mkdir of the parent, then open(tmp_path, "w"): the file exists and is empty
SaveOpen ==
    /\ pc = "save_open"
    /\ \/ /\ catfs' = (tmp_path :> PartialDoc(entries)) @@ catfs
          /\ pc' = "save_write"
          /\ UNCHANGED << summary, copies_since_save, idx, ret, sess, lastRun,
                          saveOld, nEvents >>
       \/ /\ MayFail
          /\ nEvents' = nEvents + 1
          /\ catfs' = catfs
          /\ SaveRaises
    /\ SaveFrame

\* json.dump and the close of the file
SaveWrite ==
    /\ pc = "save_write"
    /\ \/ /\ catfs' = (tmp_path :> Doc(entries)) @@ catfs
          /\ pc' = "save_replace"
          /\ UNCHANGED << summary, copies_since_save, idx, ret, sess, lastRun,
                          saveOld, nEvents >>
       \/ /\ MayFail
          /\ nEvents' = nEvents + 1
          /\ catfs' = catfs
          /\ SaveRaises
    /\ SaveFrame

\* os.replace(tmp_path, self._path)
SaveReplace ==
    /\ pc = "save_replace"
    /\ \/ /\ catfs' = os_replace(catfs, tmp_path, catPath)
          /\ nEvents' = nEvents
          /\ SaveReturns
       \/ /\ MayFail
          /\ nEvents' = nEvents + 1
          /\ catfs' = catfs
          /\ SaveRaises
    /\ SaveFrame

(***************************************************************************)
(* The process stops (it is killed, the machine goes down, or main ends)   *)
(* and main is run again later: the memory is lost, the disk is kept.      *)
(***************************************************************************)
Running == pc # "idle"

Restart ==
    /\ sess # "none"
    /\ MayFail
    /\ nEvents' = nEvents + 1
    /\ sess' = "none"
    /\ loadResult' = "none"
    /\ algo' = "sha256"
    /\ dry_run' = FALSE
    /\ entries' = NoEntries
    /\ pc' = "idle"
    /\ src' = << >>
    /\ idx' = 1
    /\ files_scanned' = 0 /\ files_copied' = 0
    /\ files_skipped' = 0 /\ files_errored' = 0
    /\ errors' = << >>
    /\ copies_since_save' = 0
    /\ saveRet' = "end"
    /\ ret' = IF Running THEN "interrupted" ELSE "none"
    /\ last' = NoLast
    /\ seen' = {}
    /\ lastRun' = IF Running \/ ~lastRun.ok THEN NoRun
                   ELSE [lastRun EXCEPT !.reloaded = TRUE]
    /\ saveOld' = EmptyFn
    /\ UNCHANGED << disk, pure >>

Next ==
    \/ Main
    \/ StartCall
    \/ ProcessFile
    \/ EndOfSource
    \/ SaveOpen
    \/ SaveWrite
    \/ SaveReplace
    \/ Restart

\* The pipeline on the default catalog path, from no catalog or a damaged one.
Init == InitWith({DefaultCatalog}, {"malformed"}, PrePaths)

Spec == Init /\ [][Next]_vars


\* The catalog store on every catalog path, from every kind of catalog file.
StoreInit == InitWith(CatalogPaths, BadKinds, {})

StoreSpec == StoreInit /\ [][Next]_vars

\* process_source called with its own dry_run argument: a test, or a caller
\* other than main, runs a preview and a real run on one store.
StartCallAs ==
    /\ sess = "open"
    /\ pc = "idle"
    /\ dry_run' \in BOOLEAN
    /\ src' \in {s \in Sources : nEvents + Len(s) <= MaxEvents}
    /\ nEvents' = nEvents + Len(src')
    /\ idx' = 1
    /\ pc' = "loop"
    /\ files_scanned' = 0 /\ files_copied' = 0
    /\ files_skipped' = 0 /\ files_errored' = 0
    /\ errors' = << >>
    /\ copies_since_save' = 0
    /\ ret' = "running"
    /\ last' = NoLast
    /\ UNCHANGED << disk, sess, loadResult, algo, entries, saveRet,
                    seen, lastRun, saveOld, pure >>

PreviewNext ==
    \/ Main
    \/ StartCallAs
    \/ ProcessFile
    \/ EndOfSource
    \/ SaveOpen
    \/ SaveWrite
    \/ SaveReplace

PreviewSpec == Init /\ [][PreviewNext]_vars

\* A dated folder in which a name and all its numbered variants are taken.
FullName == build_destination_path("image", Date1, Name_a)
FullFolder == {FullName} \cup
              {Candidate(FullName, k) : k \in 2..(MAX_COLLISION_ATTEMPTS + 1)}

\* The pipeline on a target that holds such a folder.
FullInit == InitState({FullFolder}, {DefaultCatalog}, {}, 1)

FullSpec == FullInit /\ [][Next]_vars

\* Sources long enough for checkpoints: the k-th file has its own content
\* and its own date, so that every file is new and goes to its own folder.
BigFile(k) == [name |-> Name_a, bytes |-> k,
               date |-> [year |-> 2000 + k, month |-> 1, day |-> 1]]
BigSource(n) == [k \in 1..n |-> BigFile(k)]
BigLens == {0, CHECKPOINT_EVERY - 1, CHECKPOINT_EVERY,
            2 * CHECKPOINT_EVERY + ExtraFiles}
BigSources == {BigSource(n) : n \in BigLens}

\* main calls process_source on one of the long sources, its only source
StartBigCall ==
    /\ sess = "open"
    /\ pc = "idle"
    /\ ret = "none"
    /\ src' \in BigSources
    /\ idx' = 1
    /\ pc' = "loop"
    /\ files_scanned' = 0 /\ files_copied' = 0
    /\ files_skipped' = 0 /\ files_errored' = 0
    /\ errors' = << >>
    /\ copies_since_save' = 0
    /\ ret' = "running"
    /\ last' = NoLast
    /\ UNCHANGED << disk, sess, loadResult, algo, dry_run, entries, saveRet,
                    seen, lastRun, saveOld, nEvents, pure >>

CkptNext ==
    \/ Main
    \/ StartBigCall
    \/ ProcessFile
    \/ EndOfSource
    \/ SaveOpen
    \/ SaveWrite
    \/ SaveReplace

\* The pipeline on long sources and an empty target, with one failure.
CkptInit == InitState({{}}, {DefaultCatalog}, {}, MaxEvents - 1)

CkptSpec == CkptInit /\ [][CkptNext]_vars

(***************************************************************************)
(* The walk of a source tree under an exclude rule set.                    *)
(***************************************************************************)
File(parts) == [parts |-> parts, kind |-> "file", size |-> 1, stat |-> "ok"]
Photo == FileName("photo", ".jpg")
Dir_d == DirName("d")

TreeEntries ==
    { File(<< Photo >>),
      File(<< Dir_d, Photo >>),
      File(<< DirName("dqhelper"), Photo >>),
      File(<< Dir_d, DirName("dqhelper"), Photo >>),
      File(<< Dir_d, FileName("raw", ".DNG") >>),
      File(<< DirName("logs"), DirName("archive"), Photo >>),
      File(<< DirName("logs"), DirName("archive"), DirName("deep"), Photo >>),
      File(<< DirName("PRIVATE"), FileName("clip", ".MP4") >>),
      File(<< DirName(".git"), Photo >>),
      File(<< Dir_d, FileName(".hidden", ".jpg") >>),
      File(<< Dir_d, CATALOG_FILENAME >>),
      File(<< Dir_d, FileName("notes", ".txt") >>),
      [File(<< Dir_d, FileName("empty", ".jpg") >>) EXCEPT !.size = 0],
      [File(<< Dir_d, FileName("link", ".jpg") >>) EXCEPT !.kind = "symlink"],
      [File(<< Dir_d, FileName("album", ".jpg") >>) EXCEPT !.kind = "dirlink"],
      [File(<< Dir_d, FileName("socket", ".jpg") >>) EXCEPT !.kind = "special"],
      [File(<< Dir_d, FileName("locked", ".jpg") >>) EXCEPT !.stat = "denied"] }

Trees == {T \in SUBSET TreeEntries : Cardinality(T) <= MaxTreeEntries}

Patterns ==
    { << "dqhelper" >>, << "*", ".dng" >>, << ".dng" >>, << "PRIVATE", "/" >>,
      << "logs", "/", "archive" >>, << "logs", "/", "*" >>,
      << "photo", ".jpg" >>, << "#", "dqhelper" >>, << "d" >>, << >> }

RuleSets == SeqsUpTo(Patterns, MaxRules)

ScanInit ==
    /\ PipelineInit({{}}, {DefaultCatalog}, {}, 0)
    /\ srcTree \in Trees
    /\ rules \in RuleSets
    /\ scan = NoScan
    /\ call = NoCall

\* scan_directory(source_path, excludes=Excludes(rules))
ScanDirectory ==
    /\ scan = NoScan
    /\ scan' = [op |-> "scan_directory", result |-> "returned",
                yielded |-> scan_directory(srcTree, Excludes(rules))]
    /\ UNCHANGED << pipeline, srcTree, rules, call >>

\* process_source as main calls it: the walk of the loop is
\* scan_directory(source_path), with the default excludes
ProcessSourceWalk ==
    /\ scan = NoScan
    /\ scan' = [op |-> "process_source", result |-> "returned",
                yielded |-> scan_directory(srcTree, EMPTY_EXCLUDES)]
    /\ UNCHANGED << pipeline, srcTree, rules, call >>

\* process_source(..., excludes=Excludes(rules)): the function has no such
\* parameter, and the call raises TypeError before its body runs
ProcessSourceWithExcludes ==
    /\ scan = NoScan
    /\ scan' = [op |-> "process_source(excludes)", result |-> "TypeError",
                yielded |-> {}]
    /\ UNCHANGED << pipeline, srcTree, rules, call >>

ScanNext ==
    \/ ScanDirectory
    \/ ProcessSourceWalk
    \/ ProcessSourceWithExcludes

ScanSpec == ScanInit /\ [][ScanNext]_vars

(***************************************************************************)
(* exif_reader.py.  A media file carries its metadata tags in the order    *)
(* in which the reader meets them, each with a raw value, and the three    *)
(* timestamps of its stat record.                                          *)
(***************************************************************************)
EXIF_DATE_TAGS ==
    << "EXIF DateTimeOriginal", "EXIF DateTimeDigitized", "Image DateTime" >>

VIDEO_DATE_TAGS == << "QuickTime Creation Date", "QuickTime:CreateDate" >>

NoDate == [year |-> 0, month |-> 0, day |-> 0]

\* a raw tag value of the form YYYY:MM:DD HH:MM:SS
Stamp(y, m, d) == [kind |-> "stamp", year |-> y, month |-> m, day |-> d]

\* datetime.strptime(raw, EXIF_DATE_FORMAT): the fields must form a date of
\* the calendar (the values used here have no day beyond 28)
strptime(raw) ==
    IF /\ raw.kind = "stamp"
       /\ raw.year \in 1..9999 /\ raw.month \in 1..12 /\ raw.day \in 1..31
    THEN [year |-> raw.year, month |-> raw.month, day |-> raw.day]
    ELSE NoDate

parse_exif_date(raw_value) ==
    LET dt == strptime(raw_value)
    IN  IF dt = NoDate \/ dt.year < 1970 \/ dt.month = 0 \/ dt.day = 0
        THEN NoDate ELSE dt

\* exifread.process_file(f, stop_tag = stop): the tags met up to and
\* including the first one named stop; all of them when stop is "" or is
\* not met.
process_file(file_tags, stop) ==
    LET hits == {i \in DOMAIN file_tags : file_tags[i].tag = stop}
    IN  IF hits = {} THEN file_tags
        ELSE SubSeq(file_tags, 1, CHOOSE i \in hits : \A j \in hits : i <= j)

\* tag_name in tags, tags[tag_name]
HasTag(tags, tag_name) == \E i \in DOMAIN tags : tags[i].tag = tag_name
TagValue(tags, tag_name) ==
    tags[CHOOSE i \in DOMAIN tags :
            /\ tags[i].tag = tag_name
            /\ \A j \in DOMAIN tags : tags[j].tag = tag_name => j <= i].value

\* for tag_name in order: if tag_name in tags and its date parses, return it
FirstParsed(tags, order) ==
    LET good == {n \in DOMAIN order :
                    /\ HasTag(tags, order[n])
                    /\ parse_exif_date(TagValue(tags, order[n])) # NoDate}
    IN  IF good = {} THEN NoDate
        ELSE parse_exif_date(TagValue(tags,
                 order[CHOOSE n \in good : \A k \in good : n <= k]))

get_date_from_exif(file) ==
    IF ~file.exifread \/ ~file.readable THEN [date |-> NoDate, source |-> ""]
    ELSE LET first == process_file(file.tags, "EXIF DateTimeOriginal")
             d1 == FirstParsed(first, EXIF_DATE_TAGS)
             d2 == FirstParsed(first, VIDEO_DATE_TAGS)
             d3 == FirstParsed(process_file(file.tags, ""),
                               EXIF_DATE_TAGS \o VIDEO_DATE_TAGS)
         IN  IF d1 # NoDate THEN [date |-> d1, source |-> "exif"]
             ELSE IF d2 # NoDate THEN [date |-> d2, source |-> "exif"]
             ELSE IF d3 # NoDate THEN [date |-> d3, source |-> "exif"]
             ELSE [date |-> NoDate, source |-> ""]

\* datetime.fromtimestamp, with timestamps counted in years since 1970
fromtimestamp(ts) == [year |-> 1970 + ts, month |-> 1, day |-> 1]

OSError == [date |-> NoDate, source |-> "OSError"]

\* Faulty variant: the change time is taken only when it is strictly earlier.
get_date_from_fs_strict(file) ==
    LET stat == file.stat
    IN  IF ~stat.ok THEN OSError
        ELSE IF stat.has_birthtime /\ stat.st_birthtime > 0
             THEN [date |-> fromtimestamp(stat.st_birthtime), source |-> "birthtime"]
        ELSE IF stat.st_ctime < stat.st_mtime
             THEN [date |-> fromtimestamp(stat.st_ctime), source |-> "ctime"]
        ELSE [date |-> fromtimestamp(stat.st_mtime), source |-> "mtime"]

get_date_from_fs(file) ==
    LET stat == file.stat
    IN  IF ~stat.ok THEN OSError
        ELSE IF stat.has_birthtime /\ stat.st_birthtime > 0
             THEN [date |-> fromtimestamp(stat.st_birthtime), source |-> "birthtime"]
        ELSE IF stat.st_ctime <= stat.st_mtime
             THEN [date |-> fromtimestamp(stat.st_ctime), source |-> "ctime"]
        ELSE [date |-> fromtimestamp(stat.st_mtime), source |-> "mtime"]

get_media_date(file) ==
    LET r == get_date_from_exif(file)
    IN  IF r.date # NoDate THEN r ELSE get_date_from_fs(file)

TagNames == {EXIF_DATE_TAGS[i] : i \in DOMAIN EXIF_DATE_TAGS}
                \cup {VIDEO_DATE_TAGS[i] : i \in DOMAIN VIDEO_DATE_TAGS}

\* two dates a camera wrote, a zeroed one and one before 1970
RawValues == {Stamp(Date1.year, Date1.month, Date1.day),
              Stamp(Date2.year, Date2.month, Date2.day),
              Stamp(0, 0, 0), Stamp(1969, 12, 28)}

\* the tags of a file: each name at most once
TagLists ==
    {t \in SeqsUpTo([tag : TagNames, value : RawValues], MaxTags) :
        \A i, j \in DOMAIN t : t[i].tag = t[j].tag => i = j}

Stats ==
    {[ok |-> TRUE, has_birthtime |-> FALSE, st_birthtime |-> 0, st_ctime |-> 30, st_mtime |-> 31],
     [ok |-> TRUE, has_birthtime |-> FALSE, st_birthtime |-> 0, st_ctime |-> 31, st_mtime |-> 30],
     [ok |-> TRUE, has_birthtime |-> TRUE, st_birthtime |-> 29, st_ctime |-> 30, st_mtime |-> 30],
     [ok |-> TRUE, has_birthtime |-> TRUE, st_birthtime |-> 0, st_ctime |-> 30, st_mtime |-> 30],
     [ok |-> FALSE, has_birthtime |-> FALSE, st_birthtime |-> 0, st_ctime |-> 0, st_mtime |-> 0]}

MediaFiles ==
    {[exifread |-> a[1], readable |-> a[2], tags |-> t, stat |-> st] :
        a \in {<< TRUE, TRUE >>, << TRUE, FALSE >>, << FALSE, TRUE >>},
        t \in TagLists, st \in Stats}

CallGetMediaDate ==
    /\ call = NoCall
    /\ \E file \in MediaFiles :
          call' = [fn |-> "get_media_date", file |-> file,
                   result |-> get_media_date(file)]
    /\ UNCHANGED << pipeline, srcTree, rules, scan >>

\* raw values handed to _parse_exif_date: stamps with every field valid or
\* not, and a text that is no stamp
RawInputs ==
    {Stamp(y, m, d) : y \in {0, 1969, 1970, 2024}, m \in {0, 1, 12, 13},
                      d \in {0, 1, 28}}
        \cup {[kind |-> "text", year |-> 0, month |-> 0, day |-> 0]}

CallParseExifDate ==
    /\ call = NoCall
    /\ \E raw_value \in RawInputs :
          call' = [fn |-> "parse_exif_date", raw_value |-> raw_value,
                   result |-> parse_exif_date(raw_value)]
    /\ UNCHANGED << pipeline, srcTree, rules, scan >>

\* stat records: creation time not exposed, exposed and zero, negative or
\* positive; change time before, at or after the modification time
FsStats ==
    {[ok |-> TRUE, has_birthtime |-> h, st_birthtime |-> b,
      st_ctime |-> c, st_mtime |-> m] :
        h \in BOOLEAN, b \in {-1, 0, 28, 33}, c \in 29..32, m \in 29..32}

CallGetDateFromFs ==
    /\ call = NoCall
    /\ \E st \in FsStats :
          LET file == [exifread |-> FALSE, readable |-> TRUE, tags |-> << >>,
                       stat |-> st]
          IN  call' = [fn |-> "get_date_from_fs", file |-> file,
                       result |-> get_date_from_fs(file)]
    /\ UNCHANGED << pipeline, srcTree, rules, scan >>

(***************************************************************************)
(* Single calls of the functions of copier.py and exif_reader.py.          *)
(***************************************************************************)
\* dest_path and its candidates _2 .. _k
Taken(dest_path, k) == {dest_path} \cup {Candidate(dest_path, j) : j \in 2..k}

\* Directory contents around a path: it is free, it and its first candidates
\* are taken, one candidate in between is free, or (nearly) all are taken.
Folders(dest_path) ==
    {{}, {Candidate(dest_path, 2)}, {build_destination_path("video", Date2, Name_b)}}
    \cup {Taken(dest_path, k) : k \in 1..MaxTaken}
    \cup UNION {{Taken(dest_path, k) \ {Candidate(dest_path, g)} : g \in 2..k} :
                  k \in 2..MaxTaken}
    \cup {Taken(dest_path, k) :
              k \in (MAX_COLLISION_ATTEMPTS - 1)..(MAX_COLLISION_ATTEMPTS + 1)}
    \cup {Taken(dest_path, MAX_COLLISION_ATTEMPTS + 1)
              \ {Candidate(dest_path, MAX_COLLISION_ATTEMPTS)}}

CallResolveCollision ==
    /\ call = NoCall
    /\ \E dest_path \in {FullName, build_destination_path("video", Date2, Name_b)} :
       \E existing \in Folders(dest_path) :
          call' = [fn |-> "resolve_collision", existing |-> existing,
                   dest_path |-> dest_path,
                   result |-> resolve_collision(existing, dest_path)]
    /\ UNCHANGED << pipeline, srcTree, rules, scan >>

Kinds == {"image", "video", "audio"}
Years == {1, 987, 1970, 2024, 9999}
Months == {1, 3, 10, 12}
Days == {1, 9, 15, 31}
Names == {Name_a, Name_a2, Name_b, FileName("IMG_0042", ".jpg")}

CallBuildDestinationPath ==
    /\ call = NoCall
    /\ \E media_type \in Kinds, y \in Years, m \in Months, d \in Days,
          original_filename \in Names :
          LET date_taken == [year |-> y, month |-> m, day |-> d]
          IN  call' = [fn |-> "build_destination_path",
                       media_type |-> media_type, date_taken |-> date_taken,
                       original_filename |-> original_filename,
                       result |-> build_destination_path(media_type, date_taken,
                                                         original_filename)]
    /\ UNCHANGED << pipeline, srcTree, rules, scan >>

\* pattern lines of an exclude file, with and without a trailing "/"
PatternLines ==
    Patterns \cup {<< "photo", ".jpg", "/" >>, << ".jpg", "/" >>,
                   << "*", ".jpg", "/" >>, << "*", "/" >>, << "d", "/" >>,
                   << "logs", "/", "archive", "/" >>, << "PRIVATE", "/", "/" >>}

FileNames == {FileName("photo", ".jpg"), FileName("raw", ".DNG"),
              FileName("clip", ".MP4"), DirName("PRIVATE"), DirName("d")}

\* Excludes([line]).should_skip_file(file_path)
CallShouldSkipFile ==
    /\ call = NoCall
    /\ \E line \in PatternLines, name \in FileNames :
          call' = [fn |-> "should_skip_file", line |-> line, name |-> name,
                   result |-> should_skip_file(Excludes(<< line >>), name)]
    /\ UNCHANGED << pipeline, srcTree, rules, scan >>

FnInit == PipelineInit({{}}, {DefaultCatalog}, {}, 0) /\ PureIdle

FnNext ==
    \/ CallResolveCollision
    \/ CallBuildDestinationPath
    \/ CallGetMediaDate
    \/ CallParseExifDate
    \/ CallGetDateFromFs
    \/ CallShouldSkipFile

FnSpec == FnInit /\ [][FnNext]_vars

(***************************************************************************)
(* catalog_store.py used on its own: stores are opened on the catalog      *)
(* path, records are added and saved, and a second store is opened on the  *)
(* same path to see what the disk holds.  call is the history of the open  *)
(* store: what it loaded, the records added since, whether save was        *)
(* called and what the second store loaded.                                *)
(***************************************************************************)
ApiHashes == {compute_sha256([bytes |-> b]) : b \in Contents}

\* two records for each hash that differ in every other field they can
ApiRecord(h, v) ==
    [hash             |-> h,
     original_path    |-> IF v = 1 THEN Name_a ELSE Name_a2,
     destination_path |-> build_destination_path("image", Date1,
                              IF v = 1 THEN Name_a ELSE Name_a2),
     media_type       |-> "image",
     extension        |-> ".jpg",
     date_taken       |-> DateString(IF v = 1 THEN Date1 ELSE Date2),
     date_source      |-> IF v = 1 THEN "exif" ELSE "mtime",
     file_size_bytes  |-> v,
     cataloged_at     |-> 2024 + v]
ApiRecords == {ApiRecord(h, v) : h \in ApiHashes, v \in 1..2}

ApiFrame == UNCHANGED << target, dirs, catPath, algo, dry_run, pc, src, idx,
                         summary, copies_since_save, saveRet, ret, last, seen,
                         lastRun, saveOld, srcTree, rules, scan >>

\* CatalogStore(catalog_path)
ApiOpen ==
    /\ sess = "none"
    /\ LET lo == LoadOutcome(catfs, catPath)
       IN  /\ lo.result = "ok"
           /\ loadResult' = lo.result
           /\ entries' = lo.entries
           /\ call' = [fn |-> "open", loaded |-> lo.entries, log |-> << >>,
                       saved |-> "no", dirty |-> FALSE, fresh |-> NoEntries]
    /\ sess' = "open"
    /\ UNCHANGED << catfs, nEvents >>
    /\ ApiFrame

\* store.add(record)
ApiAdd ==
    /\ sess = "open"
    /\ nEvents < MaxAdds
    /\ nEvents' = nEvents + 1
    /\ \E record \in ApiRecords :
          /\ entries' = add(entries, record)
          /\ call' = [call EXCEPT !.fn = "add", !.log = Append(@, record),
                                  !.dirty = TRUE]
    /\ UNCHANGED << catfs, sess, loadResult >>
    /\ ApiFrame

\* store.save() returns
ApiSave ==
    /\ sess = "open"
    /\ catfs' = os_replace((tmp_path :> Doc(entries)) @@ catfs, tmp_path, catPath)
    /\ call' = [call EXCEPT !.fn = "save", !.saved = "yes", !.dirty = FALSE]
    /\ UNCHANGED << entries, sess, loadResult, nEvents >>
    /\ ApiFrame

\* store.save() raises while json.dump writes the temporary file
ApiSaveRaises ==
    /\ sess = "open"
    /\ call.saved # "failed"
    /\ catfs' = (tmp_path :> PartialDoc(entries)) @@ catfs
    /\ call' = [call EXCEPT !.fn = "save", !.saved = "failed"]
    /\ UNCHANGED << entries, sess, loadResult, nEvents >>
    /\ ApiFrame

\* a second CatalogStore(catalog_path) while the first is open
ApiReopen ==
    /\ sess = "open"
    /\ LET lo == LoadOutcome(catfs, catPath)
       IN  /\ lo.result = "ok"
           /\ call' = [call EXCEPT !.fn = "reopen", !.fresh = lo.entries]
    /\ UNCHANGED << catfs, entries, sess, loadResult, nEvents >>
    /\ ApiFrame

\* the store is dropped
ApiClose ==
    /\ sess = "open"
    /\ sess' = "none"
    /\ entries' = NoEntries
    /\ loadResult' = "none"
    /\ call' = NoCall
    /\ UNCHANGED << catfs, nEvents >>
    /\ ApiFrame

ApiInit == InitState({{}}, CatalogPaths, {"malformed"}, 0)

ApiNext ==
    \/ ApiOpen
    \/ ApiAdd
    \/ ApiSave
    \/ ApiSaveRaises
    \/ ApiReopen
    \/ ApiClose

ApiSpec == ApiInit /\ [][ApiNext]_vars

(***************************************************************************)
(* Properties.                                                             *)
(***************************************************************************)
SavePcs == {"save_open", "save_write", "save_replace"}

\* one iteration of the loop of process_source
IterStep == pc = "loop" /\ files_scanned' = files_scanned + 1

\* process_source returns its summary
ReturnStep == ret = "running" /\ ret' = "returned"

\* the files of the target that hold all the bytes b
CopiesOf(b) == {p \in DOMAIN target : target[p] = Whole(b)}

\* what a reader finds at the catalog path
Absent == [kind |-> "absent", entries |-> NoEntries]
Visible(fs) == IF catPath \in DOMAIN fs THEN fs[catPath] ELSE Absent

\* every hash of the catalog, in memory and on disk, is by one algorithm
OneAlgorithm ==
    \E a \in Algos :
        \A k \in DOMAIN entries \cup DOMAIN Visible(catfs).entries : k[1] = a

\* C1: the target tree never holds two copied files with the same content,
\* also after per-file errors and after a stopped run is started again.
\* (Stated for catalogs whose hashes are all by one algorithm.)
C1_AtMostOneCopyPerContent ==
    OneAlgorithm => \A b \in Contents : Cardinality(CopiesOf(b)) <= 1

\* C2: in non-preview calls on one store, a file whose content the store has
\* already copied or skipped a file of is skipped (unless hashing it fails):
\* it is counted as skipped and not as copied, nothing is written under the
\* target, and the catalog holds exactly one record for its hash.
C2_DuplicateContentSkipped ==
    [][ (IterStep /\ ~dry_run /\ src[idx].bytes \in seen
            /\ last'.outcome # "hash_error")
        => LET h == compute_hash(src[idx], algo)
           IN  /\ last'.outcome = "skipped"
               /\ files_skipped' = files_skipped + 1
               /\ files_copied' = files_copied
               /\ target' = target
               /\ Cardinality({k \in DOMAIN entries' : entries'[k].hash = h}) = 1
      ]_vars

\* two files of one source with the same bytes and different names: the first
\* was copied, the second skipped, and the catalog holds one record
C2_Witness ==
    /\ ~dry_run /\ pc = "loop" /\ Len(src) = 2 /\ idx = 3
    /\ src[1].bytes = src[2].bytes /\ src[1].name # src[2].name
    /\ files_copied = 1 /\ files_skipped = 1
    /\ record_count(entries) = 1
    /\ Cardinality(CopiesOf(src[1].bytes)) = 1

\* the call that returns now ran on the source, the algorithm and the mode of
\* the call before it, and no file failed in either
SameRunAgain ==
    /\ ReturnStep
    /\ lastRun.ok /\ lastRun.src = src /\ lastRun.algo = algo
    /\ ~lastRun.dry_run /\ ~dry_run
    /\ lastRun.errored = 0 /\ files_errored = 0

C4_SaveAtomic ==
    /\ Visible(catfs).kind # "partial"
    /\ pc \in SavePcs => Visible(catfs) \in {Visible(saveOld), Doc(entries)}
    /\ (pc = "idle" /\ ret = "returned" /\ ~dry_run)
          => Visible(catfs) = Doc(entries)

\* C5: save() writes to a temporary file that is not the catalog path, and
\* after a successful save the temporary file is gone.
C5_TmpFileSeparate ==
    /\ pc \in {"save_write", "save_replace"}
          => (tmp_path # catPath /\ tmp_path \in DOMAIN catfs)
    /\ (pc = "idle" /\ ret = "returned" /\ ~dry_run)
          => tmp_path \notin DOMAIN catfs

\* C6: constructing the store on a file that is no catalog document never
\* raises and leaves a usable, empty store.
C6_LoadNeverRaises ==
    /\ loadResult \in {"none", "ok"}
    /\ (sess = "open" /\ pc = "idle" /\ ret = "none"
          /\ Visible(catfs).kind \in BadKinds) => record_count(entries) = 0

\* C7: no step changes or removes a file of the target tree; a copy creates at
\* most one file, at a path that did not exist.
C7_NeverOverwrites ==
    [][ /\ \A q \in DOMAIN target : q \in DOMAIN target' /\ target'[q] = target[q]
        /\ Cardinality(DOMAIN target' \ DOMAIN target) <= 1 ]_vars

\* a copy whose requested path and whose _2 candidate both existed: it went to
\* _3 and the two older files are as they were
C7_Witness ==
    /\ last.outcome = "copied"
    /\ LET req == build_destination_path(classify_file(last.file.name),
                                         last.file.date, last.file.name)
       IN  /\ last.dest = Candidate(req, 3)
           /\ target[Candidate(req, 2)] = Foreign
           /\ target[req] \in {Whole(b) : b \in Contents \ {last.file.bytes}}
           /\ target[last.dest] = Whole(last.file.bytes)

\* C8: a copied file keeps its name when the name is free in its dated folder;
\* when the name is taken and <stem>_2<ext> is free it is stored there, in the
\* same folder, the file that holds the name keeps its bytes, and the new
\* record (with the new path) is added beside the records already there.
C8_SecondGetsSuffix2 ==
    [][ (IterStep /\ last'.outcome = "copied")
        => LET f == src[idx]
               req == build_destination_path(classify_file(f.name), f.date, f.name)
               h == compute_hash(f, algo)
           IN  /\ req \notin DOMAIN target => last'.dest = req
               /\ (req \in DOMAIN target /\ Candidate(req, 2) \notin DOMAIN target)
                     => /\ last'.dest = Candidate(req, 2)
                        /\ last'.dest.dir = req.dir
                        /\ target'[req] = target[req]
               /\ target'[last'.dest] = Whole(f.bytes)
               /\ h \notin DOMAIN entries
               /\ entries'[h].destination_path = last'.dest
               /\ \A k \in DOMAIN entries : entries'[k] = entries[k]
      ]_vars

\* two files with one name and one date and different bytes were copied: the
\* first holds the name, the second <stem>_2<ext>, and each has its record
C8_Witness ==
    /\ last.outcome = "copied"
    /\ LET req == build_destination_path(classify_file(last.file.name),
                                         last.file.date, last.file.name)
           other == CHOOSE b \in Contents : b # last.file.bytes
       IN  /\ last.dest = Candidate(req, 2)
           /\ req \in DOMAIN target /\ target[req] = Whole(other)
           /\ target[last.dest] = Whole(last.file.bytes)
           /\ \E k1, k2 \in DOMAIN entries :
                 /\ k1 # k2
                 /\ entries[k1].destination_path = req
                 /\ entries[k2].destination_path = last.dest
                 /\ entries[k1].original_path = entries[k2].original_path

\* C9: a file whose hash is in the catalog changes nothing but files_scanned
\* and files_skipped: no date is resolved, nothing is written under the
\* target, and the catalog is the same in memory and on disk.
C9_DuplicateShortCircuit ==
    [][ (IterStep /\ compute_hash(src[idx], algo) \in DOMAIN entries
            /\ last'.outcome # "hash_error")
        => /\ files_scanned' = files_scanned + 1
           /\ files_skipped' = files_skipped + 1
           /\ ~last'.date_resolved
           /\ pc' = "loop"
           /\ UNCHANGED << files_copied, files_errored, errors, target, dirs,
                           entries, catfs, copies_since_save >>
      ]_vars

\* a file was skipped in a non-preview call
C9_Witness ==
    /\ ~dry_run /\ last.outcome = "skipped" /\ last.known
    /\ files_skipped >= 1
    /\ compute_hash(last.file, algo) \in DOMAIN entries

\* C10: a step of a preview call writes nothing under the target, changes no
\* record in memory and never enters save(), so that the catalog directory
\* stays as it is.
C10_PreviewNeverWrites ==
    [][ (dry_run /\ pc = "loop" /\ sess' = "open")
        => /\ UNCHANGED << target, dirs, entries, catfs >>
           /\ pc' \notin SavePcs ]_vars

\* a preview call has returned, having counted a file as copied, with nothing
\* on disk and nothing in the catalog
C10_Witness ==
    /\ dry_run /\ pc = "idle" /\ ret = "returned"
    /\ files_copied >= 1
    /\ DOMAIN target = {} /\ dirs = {}
    /\ entries = NoEntries /\ catfs = EmptyFn


\* C11: a failure while one file is processed (in hashing, in the date, in
\* mkdir, in the copy, in stat, or no free name left) is caught: files_errored
\* grows by one, the pair of the file and the error is appended to errors,
\* the file is counted neither as copied nor as skipped, and the loop goes on
\* with the next file of the walk.
C11_PerFileErrorCaught ==
    [][ (IterStep /\ last'.outcome \notin {"copied", "skipped", "would_copy"})
        => /\ files_errored' = files_errored + 1
           /\ errors' = Append(errors, << src[idx].name, last'.outcome >>)
           /\ files_copied' = files_copied
           /\ files_skipped' = files_skipped
           /\ files_scanned' = files_scanned + 1
           /\ pc' = "loop" /\ idx' = idx + 1
           /\ ret' = "running" /\ sess' = "open"
      ]_vars

\* the first file found no free name and was counted as errored, and the file
\* after it was copied
C11_Witness ==
    /\ pc = "loop" /\ idx = 3 /\ ~dry_run
    /\ Len(errors) = 1 /\ errors[1] = << src[1].name, "collision_error" >>
    /\ files_errored = 1 /\ files_copied = 1 /\ files_skipped = 0
    /\ last.outcome = "copied" /\ last.file = src[2]

\* C12: no failure of a step of process_source leaves process_source: the
\* call never ends with an exception.
C12_NothingPropagates == ret # "raised"


\* the records of the store e that the catalog file of fs does not hold
Unsaved(e, fs) == DOMAIN e \ DOMAIN Visible(fs).entries

\* C13: in a non-preview call a checkpoint save starts right after an insertion
\* exactly when 50 or more records have been inserted since the catalog file
\* was last written, and after it returns the file holds every record; after
\* the last file the catalog is saved once more, however many files were
\* inserted, and then the call returns.  No save starts anywhere else.
C13_SaveSchedule ==
    [][ /\ (IterStep /\ last'.outcome = "copied")
            => ((pc' = "save_open" /\ saveRet' = "ckpt")
                  <=> Cardinality(Unsaved(entries', catfs')) >= CHECKPOINT_EVERY)
        /\ (IterStep /\ last'.outcome # "copied") => pc' = "loop"
        /\ (pc = "save_replace" /\ saveRet = "ckpt" /\ pc' = "loop"
                /\ files_errored' = files_errored)
            => /\ Visible(catfs') = Doc(entries)
               /\ copies_since_save' = 0
               /\ idx' = idx + 1
        /\ (pc = "loop" /\ idx > Len(src) /\ ~dry_run)
            => (pc' = "save_open" /\ saveRet' = "end")
        /\ (pc # "save_open" /\ pc' = "save_open")
            => /\ pc = "loop" /\ ~dry_run
               /\ saveRet' = "end" <=> idx > Len(src)
        /\ (pc = "save_replace" /\ saveRet = "end" /\ ret' = "returned")
            => (pc' = "idle" /\ Visible(catfs') = Doc(entries))
      ]_vars

\* the longest source: two checkpoints were written, and the save after the
\* last file starts with the files beyond the second checkpoint unsaved
C13_Witness ==
    /\ pc = "save_open" /\ saveRet = "end" /\ ~dry_run
    /\ files_copied = 2 * CHECKPOINT_EVERY + ExtraFiles
    /\ Cardinality(DOMAIN Visible(catfs).entries) = 2 * CHECKPOINT_EVERY
    /\ Cardinality(Unsaved(entries, catfs)) = ExtraFiles

\* the files copied into the target whose record is not in the catalog file
Unrecorded ==
    {p \in DOMAIN target :
        /\ target[p].whole
        /\ \A k \in DOMAIN Visible(catfs).entries :
              Visible(catfs).entries[k].destination_path # p}

\* C14: at every point of a non-preview run, at most 49 of the files copied
\* into the target have no record in the catalog file.
C14_LossAtMost49 ==
    (Running /\ ~dry_run) => Cardinality(Unrecorded) <= CHECKPOINT_EVERY - 1


\* the media files of the tree that scan_directory yields under the rules
Kept == scan_directory(srcTree, Excludes(rules))

\* a yielded path lies under a directory whose name is an exclude pattern, or
\* its extension is excluded by a pattern *.ext
ExcludedByRules(parts) ==
    \E i \in DOMAIN rules :
        \/ /\ Len(rules[i]) = 1
           /\ \E j \in 1..(Len(parts) - 1) : Tokens(parts[j]) = rules[i]
        \/ /\ Len(rules[i]) = 2 /\ rules[i][1] = "*"
           /\ << Lower(BaseName(parts).ext) >> = LowerStr(Tail(rules[i]))

\* C15: process_source run with an exclude rule set scans no media file under
\* a directory named by a pattern and none whose extension a pattern
\* excludes, and processes the other media files of the source.
C15_PipelineHonoursExcludes ==
    scan.op \in {"process_source", "process_source(excludes)"}
        => /\ scan.result = "returned"
           /\ \A y \in scan.yielded : ~ExcludedByRules(y[1])
           /\ Kept \subseteq scan.yielded


\* C16: whatever the tree and the exclude rule set, every pair scan_directory
\* yields is a regular file of the tree (no symbolic link) that is not empty,
\* has no path component starting with a dot, is not named
\* media_catalog.json, and has a listed image or video extension, paired with
\* the kind of that extension.
C16_ScannerFilters ==
    scan.op = "scan_directory"
        => \A y \in scan.yielded :
              \E e \in srcTree :
                 LET ext == Lower(BaseName(e.parts).ext)
                 IN  /\ e.parts = y[1]
                     /\ e.kind = "file"
                     /\ e.size > 0
                     /\ \A i \in DOMAIN e.parts :
                           Tokens(e.parts[i])[1] \notin DotWords
                     /\ BaseName(e.parts) # FileName("media_catalog", ".json")
                     /\ ext \in IMAGE_EXTENSIONS \cup VIDEO_EXTENSIONS
                     /\ y[2] = "image" <=> ext \in IMAGE_EXTENSIONS
                     /\ y[2] = "video" <=> ext \in VIDEO_EXTENSIONS

\* a walk under a rule set that yielded a video and passed over a photo in a
\* hidden directory
C16_Witness ==
    /\ scan.op = "scan_directory" /\ rules # << >>
    /\ scan.yielded = {<< << DirName("PRIVATE"), FileName("clip", ".MP4") >>, "video" >>}
    /\ File(<< DirName(".git"), Photo >>) \in srcTree

\* C17: scan_directory yields no file that lies, at any depth, beneath a
\* directory that should_skip_dir flags.
C17_NothingBelowSkippedDir ==
    scan.op = "scan_directory"
        => \A y \in scan.yielded :
              \A n \in 1..(Len(y[1]) - 1) :
                 ~should_skip_dir(Excludes(rules), SubSeq(y[1], 1, n))


\* C18: resolve_collision returns a path that does not exist unchanged;
\* for a path that exists it returns <stem>_k<ext> in the same directory for
\* the smallest k of 2..1000 whose candidate does not exist, so that what it
\* returns never exists; and it fails exactly when the path and all the
\* candidates 2..1000 exist.
C18_ResolveCollision ==
    call.fn = "resolve_collision"
        => LET E == call.existing
               d == call.dest_path
               r == call.result
               free(k) == Candidate(d, k) \notin E
           IN  /\ d \notin E => r = d
               /\ r = RuntimeError <=> (d \in E /\ \A k \in 2..1000 : ~free(k))
               /\ r # RuntimeError => r \notin E
               /\ (d \in E /\ r # RuntimeError)
                     => \E k \in 2..1000 :
                           /\ r = Candidate(d, k)
                           /\ r.dir = d.dir /\ r.name.ext = d.name.ext
                           /\ r.name.stem = Append(d.name.stem, k)
                           /\ \A j \in 2..(k - 1) : ~free(j)

\* the path and its candidates up to _999 exist: the last attempt, _1000, is
\* returned
C18_Witness ==
    /\ call.fn = "resolve_collision"
    /\ call.existing = Taken(call.dest_path, 999)
    /\ call.result = Candidate(call.dest_path, 1000)

\* the value of a sequence of decimal digits
RECURSIVE Value(_)
Value(ds) == IF ds = << >> THEN 0
             ELSE 10 * Value(SubSeq(ds, 1, Len(ds) - 1)) + ds[Len(ds)]

\* C19: build_destination_path gives <type>/YYYY/MM/DD/name below the root,
\* where <type> is the kind followed by "s" ("images", "videos"), the date
\* fields are the year, month and day in 4, 2 and 2 decimal digits, and the
\* name is the one given.
C19_DestinationPath ==
    call.fn = "build_destination_path"
        => LET r == call.result
               DigitsOf(ds, w, n) == /\ Len(ds) = w
                                     /\ \A i \in 1..w : ds[i] \in 0..9
                                     /\ Value(ds) = n
           IN  /\ Len(r.dir) = 4
               /\ r.dir[1] = << call.media_type, "s" >>
               /\ DigitsOf(r.dir[2], 4, call.date_taken.year)
               /\ DigitsOf(r.dir[3], 2, call.date_taken.month)
               /\ DigitsOf(r.dir[4], 2, call.date_taken.day)
               /\ r.name = call.original_filename

\* kind image, date 2024-03-15, name IMG_0042.jpg: images/2024/03/15/IMG_0042.jpg
C19_Witness ==
    /\ call.fn = "build_destination_path"
    /\ call.media_type = "image"
    /\ call.result = [dir |-> << << "image", "s" >>, << 2, 0, 2, 4 >>,
                                 << 0, 3 >>, << 1, 5 >> >>,
                      name |-> FileName("IMG_0042", ".jpg")]


\* the tags of the documented order, first to last
TagPriority == EXIF_DATE_TAGS \o VIDEO_DATE_TAGS

\* the tag has a date that strptime accepts and that is not before 1970
ValidTag(file, n) ==
    \E i \in DOMAIN file.tags :
        /\ file.tags[i].tag = TagPriority[n]
        /\ file.tags[i].value.kind = "stamp"
        /\ file.tags[i].value.year \in 1970..9999
        /\ file.tags[i].value.month \in 1..12
        /\ file.tags[i].value.day \in 1..31

\* C20: when the metadata of a file can be read and at least one tag of the
\* order DateTimeOriginal, DateTimeDigitized, Image DateTime, container
\* creation time carries a valid date, get_media_date returns the date of
\* the first such tag of that order with the label exif, whatever the
\* filesystem timestamps are.
C20_FirstValidTagWins ==
    (/\ call.fn = "get_media_date"
     /\ call.file.exifread /\ call.file.readable
     /\ \E n \in DOMAIN TagPriority : ValidTag(call.file, n))
        => LET n == CHOOSE n \in DOMAIN TagPriority :
                        /\ ValidTag(call.file, n)
                        /\ \A k \in 1..(n - 1) : ~ValidTag(call.file, k)
               v == TagValue(call.file.tags, TagPriority[n])
           IN  call.result = [date |-> [year |-> v.year, month |-> v.month,
                                        day |-> v.day],
                              source |-> "exif"]


\* the tag is present with a value that does not parse or is before 1970
InvalidTag(file, n) ==
    /\ HasTag(file.tags, TagPriority[n])
    /\ ~ValidTag(file, n)

\* C21: a metadata value that does not parse, or has year < 1970, month 0
\* or day 0, is treated as absent: _parse_exif_date rejects it; the date
\* get_media_date returns with the label exif is that of a valid tag; after
\* an invalid tag the resolution goes on to the next tag of the order that
\* is valid; and with no valid tag the filesystem timestamps are used.
C21_InvalidTreatedAsAbsent ==
    /\ call.fn = "parse_exif_date"
          => LET v == call.raw_value
                 rejected == \/ v.kind # "stamp"
                             \/ v.year < 1970 \/ v.year > 9999
                             \/ v.month \notin 1..12 \/ v.day \notin 1..31
             IN  IF rejected THEN call.result = NoDate
                 ELSE call.result = [year |-> v.year, month |-> v.month,
                                     day |-> v.day]
    /\ (call.fn = "get_media_date" /\ call.file.exifread /\ call.file.readable)
          => LET f == call.file
                 valid == {n \in DOMAIN TagPriority : ValidTag(f, n)}
                 DateOf(n) == LET v == TagValue(f.tags, TagPriority[n])
                              IN  [year |-> v.year, month |-> v.month,
                                   day |-> v.day]
             IN  /\ call.result.source = "exif"
                       => \E n \in valid : call.result.date = DateOf(n)
                 /\ \A n \in valid :
                       (/\ \A k \in 1..(n - 1) : k \notin valid
                        /\ \E k \in 1..(n - 1) : InvalidTag(f, k))
                          => call.result = [date |-> DateOf(n), source |-> "exif"]
                 /\ valid = {} => call.result.source # "exif"

\* C22: get_date_from_fs returns the creation time with the label birthtime
\* if one is exposed and is > 0; otherwise the change time with the label
\* ctime if it is <= the modification time; otherwise the modification time
\* with the label mtime.  Without a creation time the timestamp returned is
\* the smaller of change time and modification time.
C22_FsFallbackChain ==
    (call.fn = "get_date_from_fs" /\ call.file.stat.ok)
        => LET st == call.file.stat
               r == call.result
               birth == st.has_birthtime /\ st.st_birthtime > 0
               DateAt(ts) == [year |-> 1970 + ts, month |-> 1, day |-> 1]
               least == IF st.st_ctime <= st.st_mtime THEN st.st_ctime
                        ELSE st.st_mtime
           IN  /\ birth => r = [date |-> DateAt(st.st_birthtime),
                                source |-> "birthtime"]
               /\ (~birth /\ st.st_ctime <= st.st_mtime)
                     => r = [date |-> DateAt(st.st_ctime), source |-> "ctime"]
               /\ (~birth /\ st.st_ctime > st.st_mtime)
                     => r = [date |-> DateAt(st.st_mtime), source |-> "mtime"]
               /\ ~birth => r.date = DateAt(least)

\* no creation time is exposed and the change time is later than the
\* modification time: the modification time is returned
C22_Witness ==
    /\ call.fn = "get_date_from_fs"
    /\ ~call.file.stat.has_birthtime
    /\ call.file.stat.st_ctime > call.file.stat.st_mtime
    /\ call.result.source = "mtime"

\* C23: get_media_date never fails: whatever failure occurs while the date
\* is resolved, it returns a pair whose label is one of exif, birthtime,
\* ctime, mtime.
C23_GetMediaDateNeverFails ==
    call.fn = "get_media_date"
        => call.result.source \in {"exif", "birthtime", "ctime", "mtime"}


\* the hashes added to the open store, and the record added last under one
AddedHashes == {call.log[i].hash : i \in DOMAIN call.log}
Latest(log, h) ==
    log[CHOOSE i \in DOMAIN log :
           /\ log[i].hash = h
           /\ \A j \in DOMAIN log : log[j].hash = h => j <= i]

\* C24: the catalog is a map keyed by hash with last-write-wins: after any
\* sequence of add calls record_count is the number of distinct hashes
\* loaded or added, contains(h) is true exactly for those hashes, get(h) is
\* the record added last under h, and an add under a hash that is present
\* leaves record_count as it was.
C24_LastWriteWins ==
    [][(sess' = "open" /\ call'.fn # "none")
          => /\ LET known == DOMAIN call'.loaded
                               \cup {call'.log[i].hash : i \in DOMAIN call'.log}
                IN  /\ record_count(entries') = Cardinality(known)
                    /\ \A h \in ApiHashes : contains(entries', h) <=> h \in known
                    /\ \A i \in DOMAIN call'.log :
                          get(entries', call'.log[i].hash)
                              = Latest(call'.log, call'.log[i].hash)
                    /\ \A h \in DOMAIN call'.loaded :
                          (\A i \in DOMAIN call'.log : call'.log[i].hash # h)
                              => entries'[h] = call'.loaded[h]
             /\ (/\ call'.fn = "add"
                 /\ contains(entries, call'.log[Len(call'.log)].hash))
                   => record_count(entries') = record_count(entries)]_vars

\* a store that loaded a record of one hash was given another record under
\* that hash: one record, the new one
C24_Witness ==
    /\ sess = "open" /\ call.fn = "add"
    /\ \E h \in DOMAIN call.loaded :
          /\ Len(call.log) = 1 /\ call.log[1].hash = h
          /\ from_dict(call.loaded[h]) # call.log[1]
          /\ get(entries, h) = call.log[1]
          /\ record_count(entries) = 1

\* C25: a record added to a store is not seen by a second store opened on
\* the same path until save() has been called; after save() a second store
\* holds the same hashes as the first and get gives records equal field by
\* field to those saved.
C25_RoundTrip ==
    (sess = "open" /\ call.fn = "reopen")
        => /\ call.saved = "no" => call.fresh = call.loaded
           /\ (call.saved = "yes" /\ ~call.dirty)
                 => /\ DOMAIN call.fresh = DOMAIN entries
                    /\ \A h \in DOMAIN entries :
                          get(call.fresh, h) = get(entries, h)
                    /\ \A h \in AddedHashes :
                          get(call.fresh, h) = Latest(call.log, h)

\* two records were added and saved; the second store returns both
C25_Witness ==
    /\ sess = "open" /\ call.fn = "reopen"
    /\ call.saved = "yes" /\ ~call.dirty
    /\ Cardinality(AddedHashes) = 2
    /\ \A h \in AddedHashes : get(call.fresh, h) = Latest(call.log, h)


\* C26: a pattern line that ends in "/" affects directories only: a rule set
\* built from that line alone makes should_skip_file false for every file.
C26_DirOnlySparesFiles ==
    (/\ call.fn = "should_skip_file"
     /\ call.line # << >>
     /\ call.line[Len(call.line)] = "/")
        => call.result = FALSE


\* C27: after every iteration of the loop of process_source and on return,
\* files_scanned = files_copied + files_skipped + files_errored and errors
\* has files_errored elements, in preview and non-preview mode and whatever
\* files fail.  (While a checkpoint save runs the iteration is not over.)
C27_CountersAddUp ==
    /\ ~(pc \in SavePcs /\ saveRet = "ckpt")
          => /\ files_scanned = files_copied + files_skipped + files_errored
             /\ Len(errors) = files_errored
    /\ lastRun.ok
          => lastRun.scanned = lastRun.copied + lastRun.skipped + lastRun.errored

\* a call returned that copied a file, skipped a file and failed on a file
C27_Witness ==
    /\ ret = "returned"
    /\ files_copied >= 1 /\ files_skipped >= 1 /\ files_errored >= 1
    /\ files_scanned = 3

\* C28: in non-preview mode files_copied is the number of files the call
\* created under the target root and the number of records it added to the
\* catalog; stated for each iteration of the loop: the files created and the
\* records added are as many as files_copied went up by, so that a file
\* counted as errored leaves neither a new file nor a new record.
C28_CopiedMatchesTargetAndCatalog ==
    [][(IterStep /\ ~dry_run /\ pc' = "loop")
          => LET counted == files_copied' - files_copied
             IN  /\ Cardinality(DOMAIN target' \ DOMAIN target) = counted
                 /\ Cardinality(DOMAIN entries' \ DOMAIN entries) = counted]_vars

\* the call that returns now is a non-preview run on the source and with the
\* algorithm of the preview run before it, and no file failed in either
RunAfterPreview ==
    /\ ReturnStep
    /\ lastRun.ok /\ lastRun.src = src /\ lastRun.algo = algo
    /\ lastRun.dry_run /\ ~dry_run
    /\ lastRun.errored = 0 /\ files_errored = 0

\* C29: a preview run of process_source reports the files_copied and
\* files_skipped that a non-preview run on the same source, target and
\* catalog reports, also when the source holds files with identical content.
C29_PreviewAccuracy ==
    [][RunAfterPreview => /\ files_copied = lastRun.copied
                          /\ files_skipped = lastRun.skipped]_vars

\* C30: every record of the catalog names as destination_path the path
\* copy_file returned: the file at that path exists in the target and holds
\* the bytes the record's hash was computed from; and no two records name
\* the same destination_path.
C30_CatalogMatchesTarget ==
    /\ \A k \in DOMAIN entries :
          /\ entries[k].destination_path \in DOMAIN target
          /\ target[entries[k].destination_path] = Whole(k[2])
    /\ \A k1, k2 \in DOMAIN entries :
          entries[k1].destination_path = entries[k2].destination_path => k1 = k2

\* a file went to <stem>_2<ext> because its name was taken: its record names
\* the path with the suffix, not the one asked for
C30_Witness ==
    /\ last.outcome = "copied" /\ ~dry_run
    /\ LET req == build_destination_path(classify_file(last.file.name),
                                         last.file.date, last.file.name)
           h == compute_hash(last.file, algo)
       IN  /\ last.dest # req
           /\ h \in DOMAIN entries
           /\ entries[h].destination_path = last.dest
           /\ \E k \in DOMAIN entries : entries[k].destination_path = req

====
